---- MODULE Spec2Model ----
(***************************************************************************)
(* Model of move_group::ExecuteTaskSolutionCapability                      *)
(* (capabilities/src/execute_task_solution_capability.cpp).                *)
(*                                                                         *)
(* The capability receives one goal (a Solution: an ordered list of        *)
(* SubTrajectory messages), builds an ExecutableMotionPlan from it         *)
(* (constructMotionPlan), hands the plan to plan_execution::PlanExecution  *)
(* (executeAndMonitor) and reports one terminal state through the action   *)
(* server.  preemptCallback runs on the action server's thread and calls   *)
(* PlanExecution::stop().                                                  *)
(*                                                                         *)
(* PlanExecution, the planning scene monitor and the action server are     *)
(* collaborators outside this file: they are modelled by the contract the  *)
(* capability relies on, with every outcome they can produce left open.    *)
(***************************************************************************)
EXTENDS Integers, Sequences, FiniteSets, TLC

VARIABLES
    plan_execution_,  \* context_->plan_execution_ is non-null
    model,            \* the RobotModel: registered groups and joint kinds
    solution,         \* goal->solution (scene diffs are stripped in place)
    goal,             \* the solution as it was received (history)
    pc,               \* position of the execCallback thread
    i,                \* loop index of constructMotionPlan
    state,            \* the running RobotState of constructMotionPlan
    plan,             \* plan.plan_components_
    error_code,       \* result.error_code.val
    lockHeld,         \* a LockedPlanningSceneRO is alive
    current,          \* the planning scene's current robot state
    eng,              \* PlanExecution: position, segment index, preempt flag
    log,              \* observable events in the order they happened (history)
    stops,            \* when preemptCallback ran (history)
    query,            \* joints argument of a direct findJointModelGroup call
    found             \* result of that call

vars == <<plan_execution_, model, solution, goal, pc, i, state, plan, error_code,
          lockHeld, current, eng, log, stops, query, found>>

-----------------------------------------------------------------------------
(* Bounds *)

MaxSegs == 3      \* longest solution (sub_trajectory.size())
MaxGroups == 2    \* most registered JointModelGroups
MaxNames == 2     \* longest joints vector passed to findJointModelGroup

-----------------------------------------------------------------------------
(* moveit_msgs::MoveItErrorCodes values used by the capability and engine *)

SUCCESS == "SUCCESS"
PREEMPTED == "PREEMPTED"
CONTROL_FAILED == "CONTROL_FAILED"
INVALID_MOTION_PLAN == "INVALID_MOTION_PLAN"
TIMED_OUT == "TIMED_OUT"
INVALIDATED == "MOTION_PLAN_INVALIDATED_BY_ENVIRONMENT_CHANGE"
NoCode == "unset"

ErrorCodes == {SUCCESS, PREEMPTED, CONTROL_FAILED, INVALID_MOTION_PLAN, TIMED_OUT, INVALIDATED}

\* codes executeAndMonitor returns when a segment fails
EngineFailureCodes == {CONTROL_FAILED, TIMED_OUT, INVALIDATED}

-----------------------------------------------------------------------------
(* The robot model *)

Joints == {"j1", "j2", "j3"}

JointKinds == {"REVOLUTE", "PASSIVE", "MIMIC", "FIXED"}

\* the kinds each joint of the model may have
KindChoices == [j1 : {"REVOLUTE", "PASSIVE"}, j2 : {"REVOLUTE", "MIMIC"}, j3 : {"REVOLUTE", "FIXED"}]

SeqsUpTo(S, n) == UNION {[1..k -> S] : k \in 0..n}

Range(s) == {s[k] : k \in DOMAIN s}

GroupLists == SeqsUpTo(SUBSET Joints \ {{}}, MaxGroups)

RobotModels == [groups : GroupLists, kinds : KindChoices]

\* the model the goals are executed on: "arm_with_finger" = {j1, j2} is
\* registered before "arm" = {j1}; j2 mimics j1; j3 is in no group
ArmModel == [groups |-> <<{"j1", "j2"}, {"j1"}>>,
             kinds |-> [j1 |-> "REVOLUTE", j2 |-> "MIMIC", j3 |-> "REVOLUTE"]]

\* a second model: the mimic finger "finger" = {j2} is registered before
\* "arm" = {j1, j3}, whose j3 is fixed
FingerModel == [groups |-> <<{"j2"}, {"j1", "j3"}>>,
                kinds |-> [j1 |-> "REVOLUTE", j2 |-> "MIMIC", j3 |-> "FIXED"]]

\* diff_jm->isPassive() || diff_jm->getMimic() || diff_jm->getType() == FIXED
Tolerated(m, j) == m.kinds[j] \in {"PASSIVE", "MIMIC", "FIXED"}

\* the body of the loop over jmgs: does group g actuate joint_set?
GroupMatches(m, g, joint_set) ==
    /\ joint_set \subseteq g
    /\ LET difference == g \ joint_set
           acceptable == Cardinality({d \in difference : Tolerated(m, d)})
       IN  Cardinality(difference) = acceptable

RECURSIVE ScanGroups(_, _, _)
ScanGroups(m, joint_set, k) ==
    IF k > Len(m.groups) THEN 0
    ELSE IF GroupMatches(m, m.groups[k], joint_set) THEN k
    ELSE ScanGroups(m, joint_set, k + 1)

\* mutants of findJointModelGroup
RECURSIVE ScanGroupsBackwards(_, _, _)
ScanGroupsBackwards(m, joint_set, k) ==
    IF k < 1 THEN 0
    ELSE IF GroupMatches(m, m.groups[k], joint_set) THEN k
    ELSE ScanGroupsBackwards(m, joint_set, k - 1)

findJointModelGroup_Last(m, joints) == ScanGroupsBackwards(m, Range(joints), Len(m.groups))

findJointModelGroup_Smallest(m, joints) ==
    LET ok == {k \in 1..Len(m.groups) : GroupMatches(m, m.groups[k], Range(joints))}
        least == {k \in ok : \A h \in ok : Cardinality(m.groups[k]) <= Cardinality(m.groups[h])}
    IN  IF ok = {} THEN 0 ELSE CHOOSE k \in least : \A h \in least : k <= h

\* the index (1-based, registration order) of the group returned; 0 is nullptr
findJointModelGroup(m, joints) == ScanGroups(m, Range(joints), 1)

-----------------------------------------------------------------------------
(* Messages *)

\* moveit_msgs::PlanningScene as far as the capability reads it:
\*   joint_state, multi_dof_joint_state: robot_state.<field> names a joint
\*   is_diff: robot_state.is_diff
\*   attached: robot_state carries attached collision objects
\*   world: the scene carries anything outside robot_state
\*   wellformed: robotStateMsgToRobotState accepts robot_state
SceneDiff(js, mdof, diff, att, w, wf) ==
    [joint_state |-> js, multi_dof_joint_state |-> mdof, is_diff |-> diff,
     attached |-> att, world |-> w, wellformed |-> wf]

NoDiff == SceneDiff(FALSE, FALSE, TRUE, FALSE, FALSE, TRUE)
AttachDiff == SceneDiff(FALSE, FALSE, TRUE, TRUE, TRUE, TRUE)
JointStateDiff == SceneDiff(TRUE, TRUE, FALSE, FALSE, FALSE, TRUE)
MalformedDiff == SceneDiff(TRUE, FALSE, TRUE, FALSE, FALSE, FALSE)

SubTrajectory(names, mdof_names, ctrl, diff) ==
    [joint_names |-> names, mdof_joint_names |-> mdof_names,
     controller_names |-> ctrl, scene_diff |-> diff]

\* the sub-trajectories goals are made of
SubTrajectories ==
    { SubTrajectory(<<"j1">>, <<>>, {"arm_controller"}, NoDiff),
      SubTrajectory(<<>>, <<>>, {}, AttachDiff),
      SubTrajectory(<<"j1">>, <<"j2">>, {"arm_controller"}, JointStateDiff),
      SubTrajectory(<<"j3">>, <<>>, {}, NoDiff),
      SubTrajectory(<<"j1">>, <<>>, {}, MalformedDiff) }

Solutions == SeqsUpTo(SubTrajectories, MaxSegs)

\* the states the planning scene's current robot state takes
SceneStates == {"s0", "s1"}

\* moveit::core::isEmpty(const moveit_msgs::RobotState&)
isEmptyRobotState(d) ==
    d.is_diff /\ ~d.joint_state /\ ~d.multi_dof_joint_state /\ ~d.attached

\* moveit::core::isEmpty(const moveit_msgs::PlanningScene&)
isEmptyScene(d) == ~d.world /\ isEmptyRobotState(d)

\* moveit::core::robotStateMsgToRobotState(msg, state, true): success flag
robotStateMsgToRobotState_ok(d) == d.wellformed

\* ... and the state it leaves: the diff of segment seg is applied on top
robotStateMsgToRobotState(d, st, seg) ==
    [st EXCEPT !.applied = Append(@, [seg |-> seg,
                                      joints |-> d.joint_state \/ d.multi_dof_joint_state,
                                      attached |-> d.attached])]

\* the three assignments at the top of the completion effect
\* mutant: only joint_state is cleared, multi_dof_joint_state stays
StripJointState_KeepsMultiDof(d) ==
    [d EXCEPT !.joint_state = FALSE, !.is_diff = TRUE]

\* mutant: the whole robot_state is cleared, attached bodies included
StripJointState_ClearsRobotState(d) ==
    [d EXCEPT !.joint_state = FALSE, !.multi_dof_joint_state = FALSE,
              !.is_diff = TRUE, !.attached = FALSE]

StripJointState(d) ==
    [d EXCEPT !.joint_state = FALSE, !.multi_dof_joint_state = FALSE, !.is_diff = TRUE]

-----------------------------------------------------------------------------
(* History *)

Ev(t, x, y) == [type |-> t, a |-> x, b |-> y]

TerminalTypes == {"setSucceeded", "setPreempted", "setAborted"}

Select(s, T) == SelectSeq(s, LAMBDA e : e.type \in T)

Terminals == Select(log, TerminalTypes)
Feedbacks == Select(log, {"feedback"})

N == Len(solution)

\* the goal is active with its plan built and no terminal transition made
Executing == pc \in {"execute", "report"}

\* the number of segments the engine has finished successfully
Completed == Len(Select(log, {"segment_ok"}))

\* the engine has finished at least one segment of the plan and not yet the last
MidPlan ==
    /\ pc = "execute" /\ eng.pc \in {"run", "effect"}
    /\ Completed >= 1 /\ Completed < Len(plan)

-----------------------------------------------------------------------------
(* Initial states *)

NoState == [base |-> "none", applied |-> <<>>]

EngineOff == [pc |-> "off", idx |-> 0, preempt |-> FALSE, code |-> NoCode]

NoStops == [any |-> FALSE, executing |-> FALSE, k |-> -1]

Init ==
    /\ plan_execution_ \in BOOLEAN
    /\ model \in {ArmModel, FingerModel}
    /\ solution \in Solutions
    /\ goal = solution
    /\ pc = "idle"
    /\ i = 0
    /\ state = NoState
    /\ plan = <<>>
    /\ error_code = NoCode
    /\ lockHeld = FALSE
    /\ current \in SceneStates
    /\ eng = EngineOff
    /\ log = <<>>
    /\ stops = NoStops
    /\ query = <<>>
    /\ found = -1

-----------------------------------------------------------------------------
(* execCallback *)

\* if (!context_->plan_execution_) { ... setAborted(result, response); return; }
\* mutant: the return is missing, execution falls through to the build
GoalReceived_NoReturn ==
    /\ pc = "idle"
    /\ pc' = "construct"
    /\ IF ~plan_execution_
       THEN /\ error_code' = CONTROL_FAILED
            /\ log' = Append(log, Ev("setAborted", 0, 0))
       ELSE UNCHANGED <<error_code, log>>
    /\ UNCHANGED <<plan_execution_, model, solution, goal, i, state, plan, lockHeld,
                   current, eng, stops, query, found>>

GoalReceived ==
    /\ pc = "idle"
    /\ IF ~plan_execution_
       THEN /\ error_code' = CONTROL_FAILED
            /\ log' = Append(log, Ev("setAborted", 0, 0))
            /\ pc' = "done"
       ELSE /\ pc' = "construct"
            /\ UNCHANGED <<error_code, log>>
    /\ UNCHANGED <<plan_execution_, model, solution, goal, i, state, plan, lockHeld,
                   current, eng, stops, query, found>>

\* mutant: every non-success code but PREEMPTED is reported as success
TerminalFor_AbortAsSuccess(code) ==
    IF code = PREEMPTED THEN "setPreempted" ELSE "setSucceeded"

\* mutant: the preemption code ends the goal as aborted
TerminalFor_PreemptAsAbort(code) ==
    IF code = SUCCESS THEN "setSucceeded" ELSE "setAborted"

\* the if / else if / else over result.error_code.val
TerminalFor(code) ==
    IF code = SUCCESS THEN "setSucceeded"
    ELSE IF code = PREEMPTED THEN "setPreempted"
    ELSE "setAborted"

\* mutant: the else before the last branch is missing, so a code that is not
\* SUCCESS is also reported as aborted after it was reported as preempted
Report_NoElse ==
    /\ pc = "report"
    /\ log' = log \o (IF error_code = SUCCESS THEN <<Ev("setSucceeded", 0, 0)>>
                      ELSE IF error_code = PREEMPTED
                      THEN <<Ev("setPreempted", 0, 0), Ev("setAborted", 0, 0)>>
                      ELSE <<Ev("setAborted", 0, 0)>>)
    /\ pc' = "done"
    /\ UNCHANGED <<plan_execution_, model, solution, goal, i, state, plan, error_code,
                   lockHeld, current, eng, stops, query, found>>

Report ==
    /\ pc = "report"
    /\ log' = Append(log, Ev(TerminalFor(error_code), 0, 0))
    /\ pc' = "done"
    /\ UNCHANGED <<plan_execution_, model, solution, goal, i, state, plan, error_code,
                   lockHeld, current, eng, stops, query, found>>

-----------------------------------------------------------------------------
(* constructMotionPlan *)

\* model = getRobotModel(); RobotState state(model); { LockedPlanningSceneRO scene(...)
LockScene ==
    /\ pc = "construct"
    /\ lockHeld' = TRUE
    /\ log' = log \o <<Ev("constructMotionPlan", 0, 0), Ev("lock", 0, 0)>>
    /\ pc' = "snapshot"
    /\ UNCHANGED <<plan_execution_, model, solution, goal, i, state, plan, error_code,
                   current, eng, stops, query, found>>

\* mutant: the lock's scope is the whole function, not the block around the copy
SnapshotState_KeepsLock ==
    /\ pc = "snapshot"
    /\ state' = [base |-> current, applied |-> <<>>]
    /\ i' = 0
    /\ plan' = <<>>
    /\ pc' = "build"
    /\ UNCHANGED <<plan_execution_, model, solution, goal, error_code, current, eng,
                   log, stops, query, found, lockHeld>>

\* state = scene->getCurrentState(); }  and the loop is entered with i = 0
SnapshotState ==
    /\ pc = "snapshot"
    /\ state' = [base |-> current, applied |-> <<>>]
    /\ lockHeld' = FALSE
    /\ i' = 0
    /\ plan' = <<>>
    /\ pc' = "build"
    /\ UNCHANGED <<plan_execution_, model, solution, goal, error_code, current, eng,
                   log, stops, query, found>>

\* joint_names: the single-DOF names followed by the multi-DOF names
JointNames(sub) == sub.joint_names \o sub.mdof_joint_names

\* mutant: the group is resolved for every segment
NeedsGroup_Always(joint_names) == TRUE

\* if (!joint_names.empty())
NeedsGroup(joint_names) == joint_names # <<>>

\* mutant: the failed build is ignored and the plan is executed as far as built
BuildFailed_Executes ==
    /\ pc' = "execute"
    /\ UNCHANGED <<error_code, i, state>>

\* return false;  and in execCallback: error_code.val = INVALID_MOTION_PLAN
BuildFailed ==
    /\ error_code' = INVALID_MOTION_PLAN
    /\ pc' = "report"
    /\ UNCHANGED <<i, state>>

\* plan.plan_components_.emplace_back(): a default ExecutableTrajectory
Emplaced(description) ==
    [description |-> description, built |-> FALSE, group |-> 0, reference |-> NoState,
     controller_names |-> {}, sub_id |-> 0, sub_no |-> 0]

\* mutant: the feedback carries the 1-based position of the label
SegmentIndex_OneBased(k) == k + 1

\* feedback.sub_id = i  (the loop index captured by the closure)
SegmentIndex(k) == k

\* the segment once trajectory_, controller_names_ and effect_on_success_ are set
ExecTraj(description, group, st, sub, k, no) ==
    [description |-> description, built |-> TRUE, group |-> group, reference |-> st,
     controller_names |-> sub.controller_names, sub_id |-> SegmentIndex(k), sub_no |-> no]

\* mutant: the segment's own diff is applied before its trajectory is bound
ReferenceState_AfterDiff(st, sub, k) ==
    IF isEmptyRobotState(sub.scene_diff) THEN st
    ELSE robotStateMsgToRobotState(sub.scene_diff, st, k)

\* setRobotTrajectoryMsg(state, ...): the trajectory of segment k is bound to the
\* running state as it is before the segment's own diff is looked at
ReferenceState(st, sub, k) == st

\* mutant: the build strips the joint state before it looks at the diff
BuildDiff_Stripped(d) == StripJointState(d)

\* sub_traj.scene_diff.robot_state as the build reads it: as received
BuildDiff(d) == d

\* one iteration of the loop over solution.sub_trajectory
BuildSegment ==
    /\ pc = "build"
    /\ i < N
    /\ LET sub == solution[i + 1]
           description == <<i + 1, N>>
           joint_names == JointNames(sub)
           resolve == NeedsGroup(joint_names)
           group == IF resolve THEN findJointModelGroup(model, joint_names) ELSE 0
           seen == IF resolve THEN Append(log, Ev("findJointModelGroup", i, group)) ELSE log
           exec_traj == ExecTraj(description, group, ReferenceState(state, sub, i), sub, i, N)
       IN  /\ log' = seen
           /\ IF resolve /\ group = 0
              THEN /\ plan' = Append(plan, Emplaced(description))
                   /\ BuildFailed
              ELSE /\ plan' = Append(plan, exec_traj)
                   /\ IF isEmptyRobotState(BuildDiff(sub.scene_diff))
                      THEN /\ i' = i + 1
                           /\ UNCHANGED <<state, error_code, pc>>
                      ELSE IF robotStateMsgToRobotState_ok(BuildDiff(sub.scene_diff))
                      THEN /\ state' = robotStateMsgToRobotState(BuildDiff(sub.scene_diff), state, i)
                           /\ i' = i + 1
                           /\ UNCHANGED <<error_code, pc>>
                      ELSE BuildFailed
    /\ UNCHANGED <<plan_execution_, model, solution, goal, lockHeld, current, eng,
                   stops, query, found>>

\* the loop ends, return true; execCallback goes on to executeAndMonitor
BuildDone ==
    /\ pc = "build"
    /\ i = N
    /\ pc' = "execute"
    /\ UNCHANGED <<plan_execution_, model, solution, goal, i, state, plan, error_code,
                   lockHeld, current, eng, log, stops, query, found>>

-----------------------------------------------------------------------------
(* effect_on_success_: the closure built for each segment *)

\* mutant: feedback is published only when a scene update is applied
EffectFeedback_OnlyWithDiff(seg, diff) ==
    IF isEmptyScene(diff) THEN <<>> ELSE <<Ev("feedback", seg.sub_id, seg.sub_no)>>

\* feedback.sub_id = i; feedback.sub_no = no; as_->publishFeedback(feedback)
\* (diff is the segment's scene diff after stripping)
EffectFeedback(seg, diff) == <<Ev("feedback", seg.sub_id, seg.sub_no)>>

\* mutant: every closure refers to the scene diff of the last sub-trajectory
EffectDiffIndex_Last(k) == Len(solution) - 1

\* &scene_diff = sub_traj.scene_diff: the closure of iteration k refers to the
\* scene diff of sub-trajectory k
EffectDiffIndex(k) == k

\* mutant: the answer of newPlanningSceneMessage is dropped
EffectReturn_AlwaysTrue(submit, ok) == TRUE

\* return newPlanningSceneMessage(scene_diff) if the diff is not empty, else true
EffectReturn(submit, ok) == IF submit THEN ok ELSE TRUE

\* the closure of plan segment k (0-based), invoked by the engine; ok is the
\* answer of newPlanningSceneMessage should the closure call it, ret the
\* closure's return value
Effect(k, ok, ret) ==
    LET seg == plan[k + 1]
        d == EffectDiffIndex(k)
        stripped == StripJointState(solution[d + 1].scene_diff)
        submit == ~isEmptyScene(stripped)
    IN  /\ solution' = [solution EXCEPT ![d + 1].scene_diff = stripped]
        /\ ret = EffectReturn(submit, ok)
        /\ log' = log \o <<Ev("effect", k, 0)>> \o EffectFeedback(seg, stripped)
                      \o (IF submit THEN <<Ev("newPlanningSceneMessage", d, IF ok THEN 1 ELSE 0)>>
                          ELSE <<>>)
                      \o <<Ev("effect_return", k, IF ret THEN 1 ELSE 0)>>

-----------------------------------------------------------------------------
(* preemptCallback *)

\* what a run of preemptCallback adds to the history: that it ran, whether the
\* goal was Executing, and (for the first run in mid-plan) how many segments
\* had been completed
StopsAfter ==
    [any |-> TRUE,
     executing |-> stops.executing \/ Executing,
     k |-> IF stops.k = -1 /\ MidPlan THEN Completed ELSE stops.k]

\* mutant: the callback also reports the goal as preempted
preemptCallback_SetsPreempted ==
    /\ IF plan_execution_
       THEN /\ eng' = [eng EXCEPT !.preempt = TRUE]
            /\ log' = IF pc \notin {"idle", "done"}
                      THEN Append(log, Ev("setPreempted", 0, 0)) ELSE log
       ELSE UNCHANGED <<eng, log>>
    /\ stops' = StopsAfter
    /\ UNCHANGED <<plan_execution_, model, solution, goal, pc, i, state, plan,
                   error_code, lockHeld, current, query, found>>

\* if (context_->plan_execution_) context_->plan_execution_->stop();
preemptCallback ==
    /\ IF plan_execution_
       THEN eng' = [eng EXCEPT !.preempt = TRUE]
       ELSE UNCHANGED eng
    /\ stops' = StopsAfter
    /\ UNCHANGED <<plan_execution_, model, solution, goal, pc, i, state, plan,
                   error_code, lockHeld, current, log, query, found>>

-----------------------------------------------------------------------------
(* plan_execution::PlanExecution, as the capability relies on it *)

\* executeAndMonitor(plan) is entered; a stop() requested earlier may or may
\* not be remembered; an empty plan is complete at once
EngineStart ==
    /\ pc = "execute"
    /\ eng.pc = "off"
    /\ \E keep \in BOOLEAN :
          eng' = [pc |-> IF Len(plan) = 0 THEN "complete" ELSE "run", idx |-> 0,
                  preempt |-> keep /\ eng.preempt, code |-> NoCode]
    /\ log' = Append(log, Ev("executeAndMonitor", Len(plan), 0))
    /\ UNCHANGED <<plan_execution_, model, solution, goal, pc, i, state, plan,
                   error_code, lockHeld, current, stops, query, found>>

\* the segment the engine is running finishes successfully
SegmentSucceeds ==
    /\ pc = "execute"
    /\ eng.pc = "run"
    /\ eng' = [eng EXCEPT !.pc = "effect"]
    /\ log' = Append(log, Ev("segment_ok", eng.idx, 0))
    /\ UNCHANGED <<plan_execution_, model, solution, goal, pc, i, state, plan,
                   error_code, lockHeld, current, stops, query, found>>

\* the engine invokes the finished segment's effect_on_success_; on true it
\* goes on with the next segment, on false it stops with a non-success code
RunEffect ==
    /\ pc = "execute"
    /\ eng.pc = "effect"
    /\ IF plan[eng.idx + 1].built
       THEN \E ok, ret \in BOOLEAN :
               /\ Effect(eng.idx, ok, ret)
               /\ IF ret
                  THEN eng' = [eng EXCEPT !.idx = @ + 1,
                                          !.pc = IF eng.idx + 1 = Len(plan) THEN "complete" ELSE "run"]
                  ELSE \E c \in {PREEMPTED} \cup EngineFailureCodes :
                          eng' = [eng EXCEPT !.pc = "halted", !.code = c]
       ELSE /\ eng' = [eng EXCEPT !.idx = @ + 1,
                                  !.pc = IF eng.idx + 1 = Len(plan) THEN "complete" ELSE "run"]
            /\ UNCHANGED <<solution, log>>
    /\ UNCHANGED <<plan_execution_, model, goal, pc, i, state, plan, error_code,
                   lockHeld, current, stops, query, found>>

\* the segment the engine is running fails
SegmentFails ==
    /\ pc = "execute"
    /\ eng.pc = "run"
    /\ \E c \in EngineFailureCodes : eng' = [eng EXCEPT !.pc = "halted", !.code = c]
    /\ log' = Append(log, Ev("segment_fail", eng.idx, 0))
    /\ UNCHANGED <<plan_execution_, model, solution, goal, pc, i, state, plan,
                   error_code, lockHeld, current, stops, query, found>>

\* the engine notices the stop() request; it decides what code that gives
ObservePreempt ==
    /\ pc = "execute"
    /\ eng.pc \in {"run", "complete"}
    /\ eng.preempt
    /\ \E c \in {PREEMPTED, CONTROL_FAILED} :
          eng' = [eng EXCEPT !.pc = "halted", !.code = c, !.preempt = FALSE]
    /\ UNCHANGED <<plan_execution_, model, solution, goal, pc, i, state, plan,
                   error_code, lockHeld, current, log, stops, query, found>>

\* result.error_code = context_->plan_execution_->executeAndMonitor(plan) returns
EngineReturn ==
    /\ pc = "execute"
    /\ eng.pc \in {"halted", "complete"}
    /\ error_code' = IF eng.pc = "complete" THEN SUCCESS ELSE eng.code
    /\ eng' = [eng EXCEPT !.pc = "off"]
    /\ pc' = "report"
    /\ UNCHANGED <<plan_execution_, model, solution, goal, i, state, plan, lockHeld,
                   current, log, stops, query, found>>

\* the planning scene monitor updates the current state (never under a read lock)
SceneUpdate ==
    /\ ~lockHeld
    /\ \E s \in SceneStates \ {current} : current' = s
    /\ UNCHANGED <<plan_execution_, model, solution, goal, pc, i, state, plan,
                   error_code, lockHeld, eng, log, stops, query, found>>

-----------------------------------------------------------------------------
Next ==
    \/ GoalReceived
    \/ LockScene
    \/ SnapshotState
    \/ BuildSegment
    \/ BuildDone
    \/ EngineStart
    \/ SegmentSucceeds
    \/ RunEffect
    \/ SegmentFails
    \/ ObservePreempt
    \/ EngineReturn
    \/ Report
    \/ preemptCallback
    \/ SceneUpdate

Spec == Init /\ [][Next]_vars

-----------------------------------------------------------------------------
(* findJointModelGroup called on its own, for every model and joints vector *)

InitResolver ==
    /\ model \in RobotModels
    /\ query \in SeqsUpTo(Joints, MaxNames)
    /\ found = -1
    /\ pc = "resolver"
    /\ plan_execution_ = TRUE
    /\ solution = <<>>
    /\ goal = <<>>
    /\ i = 0
    /\ state = NoState
    /\ plan = <<>>
    /\ error_code = NoCode
    /\ lockHeld = FALSE
    /\ current = "s0"
    /\ eng = EngineOff
    /\ log = <<>>
    /\ stops = NoStops

ResolveQuery ==
    /\ pc = "resolver"
    /\ found' = findJointModelGroup(model, query)
    /\ pc' = "resolved"
    /\ UNCHANGED <<plan_execution_, model, solution, goal, i, state, plan, error_code,
                   lockHeld, current, eng, log, stops, query>>

NextResolver == ResolveQuery

SpecResolver == InitResolver /\ [][NextResolver]_vars

-----------------------------------------------------------------------------
(* Properties *)

Has(t) == \E j \in 1..Len(log) : log[j].type = t

Count(t) == Len(Select(log, {t}))

EngineEvents == {"executeAndMonitor", "segment_ok", "segment_fail", "effect",
                 "feedback", "newPlanningSceneMessage"}

BuildEvents == {"constructMotionPlan", "lock", "findJointModelGroup"}

\* C1: every terminal transition execCallback makes is the one the final
\* error code names: Succeeded iff the code is SUCCESS, Preempted iff it is
\* PREEMPTED, Aborted for every other code.
C1_TerminalFromCode ==
    \A j \in 1..Len(Terminals) :
        LET t == Terminals[j].type
        IN  /\ (t = "setSucceeded") <=> (error_code = SUCCESS)
            /\ (t = "setPreempted") <=> (error_code = PREEMPTED)
            /\ (t = "setAborted") <=> (error_code \in ErrorCodes \ {SUCCESS, PREEMPTED})

\* an engine failure code has been reported as Aborted
C1_Witness ==
    /\ pc = "done"
    /\ error_code = TIMED_OUT
    /\ Terminals = <<Ev("setAborted", 0, 0)>>

\* C2: at most one terminal transition is ever made, exactly one has been made
\* once execCallback is through, and no feedback is published after it.
C2_OneTerminalNoLateFeedback ==
    /\ Len(Terminals) <= 1
    /\ (pc = "done") <=> (Len(Terminals) = 1)
    /\ \A j, k \in 1..Len(log) :
          (log[j].type \in TerminalTypes /\ log[k].type = "feedback") => k < j

\* a goal preempted in mid-execution after two feedback messages has ended
C2_Witness ==
    /\ pc = "done"
    /\ stops.executing
    /\ Len(Feedbacks) >= 2
    /\ Len(Terminals) = 1

\* C3 as stated: once preemptCallback has run while the goal was Executing,
\* the terminal state is Preempted or Aborted, never Succeeded, and there is
\* no second terminal transition.
C3_PreemptNeverSucceeds ==
    stops.executing =>
        /\ Len(Terminals) <= 1
        /\ \A j \in 1..Len(Terminals) : Terminals[j].type \in {"setPreempted", "setAborted"}

\* C3 amended: once preemptCallback has run while the goal was Executing, the
\* terminal state is Preempted or Aborted unless the engine's code is SUCCESS
\* all the same; only execCallback makes the terminal transition, once.
C3_PreemptTerminal ==
    stops.executing =>
        /\ Len(Terminals) <= 1
        /\ Terminals # <<>> => pc = "done"
        /\ \A j \in 1..Len(Terminals) :
              \/ Terminals[j].type \in {"setPreempted", "setAborted"}
              \/ Terminals[j].type = "setSucceeded" /\ error_code = SUCCESS

\* a goal preempted while Executing has ended Preempted
C3_Witness ==
    /\ stops.executing
    /\ pc = "done"
    /\ Terminals = <<Ev("setPreempted", 0, 0)>>

\* C4: with plan_execution_ null the goal goes from idle to Aborted in one
\* step: constructMotionPlan is never entered, the scene is never locked,
\* nothing reaches the engine, no segment runs, no feedback is published.
C4_DisabledAbortsAtOnce ==
    ~plan_execution_ =>
        /\ pc \in {"idle", "done"}
        /\ ~lockHeld
        /\ plan = <<>>
        /\ eng.pc = "off"
        /\ \A j \in 1..Len(log) : log[j].type \notin BuildEvents \cup EngineEvents
        /\ pc = "done" => /\ log = <<Ev("setAborted", 0, 0)>>
                          /\ error_code = CONTROL_FAILED

\* a non-empty goal received with execution disabled has ended
C4_Witness ==
    /\ ~plan_execution_
    /\ pc = "done"
    /\ N = MaxSegs
    /\ stops.any

\* segment sub cannot be built: its joints match no registered group ...
Unresolvable(sub) ==
    LET J == Range(JointNames(sub))
    IN  /\ J # {}
        /\ \A h \in 1..Len(model.groups) :
              ~(/\ J \subseteq model.groups[h]
                /\ \A j \in model.groups[h] \ J : model.kinds[j] # "REVOLUTE")

\* ... or its scene diff's robot state is not empty and cannot be applied
Inapplicable(sub) ==
    /\ \/ ~sub.scene_diff.is_diff
       \/ sub.scene_diff.joint_state
       \/ sub.scene_diff.multi_dof_joint_state
       \/ sub.scene_diff.attached
    /\ ~sub.scene_diff.wellformed

BuildMustFail == \E k \in 1..Len(goal) : Unresolvable(goal[k]) \/ Inapplicable(goal[k])

\* C5: when some segment of the goal cannot be built, nothing is handed to the
\* engine, no segment runs, no effect is invoked, no feedback is published, and
\* the goal ends Aborted with INVALID_MOTION_PLAN.
C5_BuildAllOrNothing ==
    (plan_execution_ /\ BuildMustFail) =>
        /\ pc # "execute"
        /\ eng.pc = "off"
        /\ \A j \in 1..Len(log) : log[j].type \notin EngineEvents
        /\ pc \in {"report", "done"} => error_code = INVALID_MOTION_PLAN
        /\ pc = "done" => Terminals = <<Ev("setAborted", 0, 0)>>

\* a build that failed at its third segment has ended
C5_Witness ==
    /\ pc = "done"
    /\ BuildMustFail
    /\ Len(plan) = 3
    /\ ~Unresolvable(goal[1]) /\ ~Inapplicable(goal[1])
    /\ ~Unresolvable(goal[2]) /\ ~Inapplicable(goal[2])
    /\ Terminals = <<Ev("setAborted", 0, 0)>>

\* what the engine and the closures did, in order
Progress == Select(log, {"segment_ok", "segment_fail", "effect", "feedback"})

\* C6: an effect is invoked only right after its own segment finished
\* successfully, once; each invocation publishes exactly one feedback message;
\* so the feedback messages are those of the successfully finished segments,
\* in increasing order, none is missing once the engine has returned, and all
\* of them precede the terminal result.
C6_FeedbackPerCompletedSegment ==
    LET s == Progress
    IN  /\ \A j \in 1..Len(s) :
              /\ s[j].type = "effect" =>
                    /\ j > 1 /\ s[j - 1].type = "segment_ok" /\ s[j - 1].a = s[j].a
                    /\ j < Len(s) /\ s[j + 1].type = "feedback"
              /\ s[j].type = "feedback" => j > 1 /\ s[j - 1].type = "effect"
              /\ s[j].type = "segment_ok" =>
                    /\ j < Len(s) => s[j + 1].type = "effect"
                    /\ \A k \in 1..(j - 1) : s[k].type = "segment_ok" => s[k].a < s[j].a
              /\ s[j].type = "segment_fail" =>
                    /\ j = Len(s)
                    /\ \A k \in 1..Len(s) : s[k].type = "effect" => s[k].a < s[j].a
        /\ \A j, k \in 1..Len(Feedbacks) : j < k => Feedbacks[j].a < Feedbacks[k].a
        /\ pc \in {"report", "done"} => Len(Feedbacks) = Count("segment_ok")
        /\ \A j, k \in 1..Len(log) :
              (log[j].type = "feedback" /\ log[k].type \in TerminalTypes) => j < k

\* two segments finished and published feedback, the third failed, the goal ended
C6_Witness ==
    /\ pc = "done"
    /\ Count("segment_ok") = 2
    /\ Count("segment_fail") = 1
    /\ Len(Feedbacks) = 2

\* the goals C7 is about: every segment moves joints of a registered group
\* and carries no scene diff
PlainGoal ==
    /\ plan_execution_
    /\ \A k \in 1..Len(goal) :
          /\ JointNames(goal[k]) # <<>>
          /\ ~Unresolvable(goal[k])
          /\ goal[k].scene_diff = NoDiff

Undisturbed == ~stops.any /\ ~Has("segment_fail")

\* the pairs (sub_id, sub_no) published so far
FeedbackValues == [j \in 1..Len(Feedbacks) |-> <<Feedbacks[j].a, Feedbacks[j].b>>]

\* C7 as stated: a plain goal of N segments executed undisturbed publishes
\* the feedback values 1/N, 2/N, ..., N/N and ends Succeeded.
C7_FeedbackOneBased ==
    (PlainGoal /\ Undisturbed /\ pc = "done") =>
        /\ FeedbackValues = [j \in 1..Len(goal) |-> <<j, Len(goal)>>]
        /\ Terminals = <<Ev("setSucceeded", 0, 0)>>

\* C7 amended: a plain goal of N segments executed undisturbed publishes
\* exactly N feedback messages with (sub_id, sub_no) = (0, N), (1, N), ...,
\* (N-1, N), the segments labelled 1/N ... N/N, and ends Succeeded.
C7_FeedbackZeroBased ==
    (PlainGoal /\ Undisturbed /\ pc = "done") =>
        /\ FeedbackValues = [j \in 1..Len(goal) |-> <<j - 1, Len(goal)>>]
        /\ \A j \in 1..Len(goal) : plan[j].description = <<j, Len(goal)>>
        /\ Terminals = <<Ev("setSucceeded", 0, 0)>>

\* a plain goal of three segments has been executed undisturbed
C7_Witness ==
    /\ PlainGoal /\ Undisturbed /\ pc = "done"
    /\ Len(goal) = 3
    /\ Len(Feedbacks) = 3

\* group h of the model contains every joint of J and nothing else that is
\* independently actuated
Suits(h, J) ==
    /\ J \subseteq model.groups[h]
    /\ \A j \in model.groups[h] \ J : model.kinds[j] \in {"PASSIVE", "MIMIC", "FIXED"}

Suiting(J) == {h \in 1..Len(model.groups) : Suits(h, J)}

\* C8: for a non-empty joints vector findJointModelGroup returns the first
\* group, in registration order, that contains all the joints and besides them
\* only passive, mimic or fixed ones; it returns nullptr iff there is none.
C8_FirstSuitingGroup ==
    (pc = "resolved" /\ query # <<>>) =>
        LET J == Range(query)
        IN  /\ (found = 0) <=> (Suiting(J) = {})
            /\ found # 0 =>
                  /\ found \in Suiting(J)
                  /\ \A h \in 1..(found - 1) : h \notin Suiting(J)

\* two groups suit, the first one through a tolerated extra joint; it is returned
C8_Witness ==
    /\ pc = "resolved"
    /\ query # <<>>
    /\ Suiting(Range(query)) = {1, 2}
    /\ model.groups[1] # Range(query)
    /\ found = 1

\* C9 as stated: the group returned has no more joints than any other group
\* that suits.
C9_SmallestGroup ==
    (pc = "resolved" /\ query # <<>> /\ found # 0) =>
        \A h \in Suiting(Range(query)) :
            Cardinality(model.groups[found]) <= Cardinality(model.groups[h])

\* C9 amended: when several groups suit, the one registered first is
\* returned, whatever its size.
C9_EarliestGroup ==
    (pc = "resolved" /\ query # <<>> /\ Cardinality(Suiting(Range(query))) > 1) =>
        /\ found \in Suiting(Range(query))
        /\ \A h \in Suiting(Range(query)) : found <= h

\* the group returned is larger than another group that suits
C9_Witness ==
    /\ pc = "resolved"
    /\ query # <<>>
    /\ found # 0
    /\ \E h \in Suiting(Range(query)) :
          Cardinality(model.groups[h]) < Cardinality(model.groups[found])

\* C10: a segment whose single-DOF and multi-DOF joint names are both empty
\* is built without a call of findJointModelGroup, is never the segment the
\* build fails on for want of a group, and its trajectory has no group.
C10_EmptyJointsNoGroup ==
    \A k \in 1..Len(plan) :
        (goal[k].joint_names = <<>> /\ goal[k].mdof_joint_names = <<>>) =>
            /\ plan[k].built
            /\ plan[k].group = 0
            /\ \A j \in 1..Len(log) :
                  ~(log[j].type = "findJointModelGroup" /\ log[j].a = k - 1)

\* a goal whose second segment moves no joint has been built and executed
C10_Witness ==
    /\ Len(plan) >= 2
    /\ JointNames(goal[2]) = <<>>
    /\ JointNames(goal[1]) # <<>>
    /\ Has("findJointModelGroup")
    /\ Count("segment_ok") >= 2

-----------------------------------------------------------------------------
(* History of the completion effects *)

\* the positions in the history of the events of type t about segment k
At(t, k) == {j \in 1..Len(log) : log[j].type = t /\ log[j].a = k}

\* the effect of segment k (0-based) has run
EffectRan(k) == At("effect", k) # {}

\* the effect of segment k submitted a scene update
Submitted(k) == At("newPlanningSceneMessage", k) # {}

\* what is left of the diff the goal carried for segment k once its joint
\* state is taken out: attached bodies and world content
LeavesContent(k) == goal[k + 1].scene_diff.attached \/ goal[k + 1].scene_diff.world

\* the diff the goal carried for segment k has joint-state fields and nothing else
JointStateOnly(k) ==
    /\ goal[k + 1].scene_diff.joint_state \/ goal[k + 1].scene_diff.multi_dof_joint_state
    /\ ~LeavesContent(k)

\* C11: in every completion effect the diff's joint_state and
\* multi_dof_joint_state are cleared and is_diff is set before emptiness is
\* evaluated: a scene update is submitted iff what is left after stripping is
\* non-empty, and an effect that submits nothing (in particular one whose diff
\* held only joint-state fields) returns success.
C11_StripThenSubmit ==
    \A k \in 0..(Len(goal) - 1) :
        EffectRan(k) =>
            /\ ~solution[k + 1].scene_diff.joint_state
            /\ ~solution[k + 1].scene_diff.multi_dof_joint_state
            /\ solution[k + 1].scene_diff.is_diff
            /\ Submitted(k) <=> LeavesContent(k)
            /\ \A j \in At("effect_return", k) : ~Submitted(k) => log[j].b = 1
            /\ JointStateOnly(k) => ~Submitted(k) /\ At("effect_return", k) # {}

\* the effect ran on a joint-state-only diff without submitting and returned
\* success, and on a diff with attached bodies, which it submitted
C11_Witness ==
    \E k, m \in 0..(Len(goal) - 1) :
        /\ JointStateOnly(k) /\ EffectRan(k) /\ ~Submitted(k)
        /\ \E j \in At("effect_return", k) : log[j].b = 1
        /\ LeavesContent(m) /\ EffectRan(m) /\ Submitted(m)

-----------------------------------------------------------------------------
(* The running state of the build *)

\* the build has gone past sub-trajectory k (0-based) without failing on it
BuiltPast(k) ==
    \/ pc = "build" /\ k < i
    \/ pc \in {"execute", "report", "done"} /\ Has("executeAndMonitor")

\* the build failed on sub-trajectory k after its group had been resolved,
\* that is on the robot state of its scene diff
MalformedAt(k) ==
    /\ error_code = INVALID_MOTION_PLAN
    /\ ~Has("executeAndMonitor")
    /\ Len(plan) = k + 1
    /\ plan[k + 1].built

\* the entries of the running state that come from the diff of segment k
AppliedFrom(k) == {j \in 1..Len(state.applied) : state.applied[j].seg = k}

\* C12 as stated: a scene diff never advances the joint state of the build's
\* running state, and a diff carrying only joint-state fields neither changes
\* the running state nor fails the build.
C12_DiffNeverAdvancesJoints ==
    /\ \A j \in 1..Len(state.applied) : ~state.applied[j].joints
    /\ \A k \in 0..(Len(goal) - 1) :
           JointStateOnly(k) => AppliedFrom(k) = {} /\ ~MalformedAt(k)

\* C12 (amended): the joint-state fields are stripped in the completion effect
\* only. The build tests and applies the diff as received: the diff of a
\* segment the build has gone past is in the running state iff its robot state
\* as received is non-empty, joint-state fields included, and the build leaves
\* the solution alone; what reaches the scene is stripped.
C12_StrippedOnlyInEffect ==
    /\ pc \in {"construct", "snapshot", "build"} => solution = goal
    /\ \A k \in 0..(Len(goal) - 1) :
           /\ BuiltPast(k) =>
                  (AppliedFrom(k) # {} <=>
                      \/ goal[k + 1].scene_diff.joint_state
                      \/ goal[k + 1].scene_diff.multi_dof_joint_state
                      \/ goal[k + 1].scene_diff.attached
                      \/ ~goal[k + 1].scene_diff.is_diff)
           /\ \A j \in AppliedFrom(k) :
                  state.applied[j].joints =
                      (goal[k + 1].scene_diff.joint_state
                           \/ goal[k + 1].scene_diff.multi_dof_joint_state)
           /\ MalformedAt(k) => ~goal[k + 1].scene_diff.wellformed
           /\ Submitted(k) => /\ ~solution[k + 1].scene_diff.joint_state
                              /\ ~solution[k + 1].scene_diff.multi_dof_joint_state

\* a build that applied a joint-state-only diff to its running state and then
\* failed on a later diff of the same kind that was malformed
C12_Witness ==
    \E k, m \in 0..(Len(goal) - 1) :
        /\ JointStateOnly(k) /\ AppliedFrom(k) # {}
        /\ \E j \in AppliedFrom(k) : state.applied[j].joints
        /\ JointStateOnly(m) /\ MalformedAt(m)

-----------------------------------------------------------------------------
(* Preemption in the middle of a plan *)

\* a preemption request was delivered after segment stops.k (1 <= stops.k < N)
\* had been completed and before the next one was, and the goal has ended
PreemptedMidPlan == stops.k >= 1 /\ pc = "done"

\* C13 as stated: a preemption request delivered after segment k of N is
\* completed and before segment k+1 is (k < N) ends the goal with exactly k
\* feedback messages, the engine's PREEMPTED code and the terminal state
\* Preempted.
C13_PreemptAfterK ==
    PreemptedMidPlan =>
        /\ Len(Feedbacks) = stops.k
        /\ error_code = PREEMPTED
        /\ Terminals = <<Ev("setPreempted", 0, 0)>>

\* C13 (amended): such a request ends the goal with at least k feedback
\* messages; if the engine stops before segment k+1 is completed and reports
\* PREEMPTED, exactly k feedback messages are published and the terminal
\* state is Preempted.
C13_PreemptAfterKWhenObserved ==
    PreemptedMidPlan =>
        /\ Len(Feedbacks) >= stops.k
        /\ Completed = stops.k /\ error_code = PREEMPTED =>
               /\ Len(Feedbacks) = stops.k
               /\ Terminals = <<Ev("setPreempted", 0, 0)>>

\* the request came after segment 1 of 3, the engine stopped before segment 2
\* was completed and reported PREEMPTED
C13_Witness ==
    /\ PreemptedMidPlan
    /\ stops.k = 1 /\ Len(plan) = 3
    /\ Completed = 1 /\ error_code = PREEMPTED
    /\ Len(Feedbacks) = 1
    /\ Terminals = <<Ev("setPreempted", 0, 0)>>

-----------------------------------------------------------------------------
(* Failures during execution *)

\* the scene update submitted by the effect of segment k was refused
SubmissionFailed(k) == \E j \in At("newPlanningSceneMessage", k) : log[j].b = 0

\* C14: a scene-update submission that fails is not dropped: the effect that
\* made it returns failure to the engine, and the goal does not end Succeeded.
C14_FailedSubmissionSurfaces ==
    \A k \in 0..(Len(goal) - 1) :
        SubmissionFailed(k) =>
            /\ \A j \in At("effect_return", k) : log[j].b = 0
            /\ At("effect_return", k) # {}
            /\ ~Has("setSucceeded")
            /\ pc \in {"report", "done"} => error_code # SUCCESS

\* the scene update of the last segment's effect was refused after the
\* earlier segments had gone through, and the goal ended otherwise than Succeeded
C14_Witness ==
    /\ pc = "done"
    /\ Len(plan) >= 2
    /\ SubmissionFailed(Len(plan) - 1)
    /\ Completed = Len(plan)
    /\ Len(Terminals) = 1
    /\ Terminals[1].type \in {"setAborted", "setPreempted"}

\* the events of the engine and of the effects about single segments
SegmentEvents ==
    {"segment_ok", "segment_fail", "effect", "feedback", "newPlanningSceneMessage",
     "effect_return"}

\* C15: once segment i has failed, no later segment is executed, no effect
\* runs, no feedback is published and no scene update is submitted for
\* segment i or a later one, and the goal ends Aborted.
C15_FailureStopsPlan ==
    \A f \in 1..Len(log) :
        log[f].type = "segment_fail" =>
            /\ \A j \in 1..Len(log) :
                   log[j].type \in SegmentEvents /\ j # f =>
                       j < f /\ log[j].a < log[f].a
            /\ pc \in {"report", "done"} => error_code \in EngineFailureCodes
            /\ ~Has("setSucceeded") /\ ~Has("setPreempted")
            /\ pc = "done" => Terminals = <<Ev("setAborted", 0, 0)>>

\* the second of three segments failed after the first had gone through with
\* its effect, and the goal ended Aborted
C15_Witness ==
    /\ pc = "done"
    /\ Len(plan) = 3
    /\ At("segment_fail", 1) # {}
    /\ EffectRan(0) /\ ~EffectRan(1) /\ ~EffectRan(2)
    /\ Len(Feedbacks) = 1
    /\ Terminals = <<Ev("setAborted", 0, 0)>>

-----------------------------------------------------------------------------
(* Order of the scene updates *)

\* the beginnings and ends of the effects, in the order they happened
EffectSpans == Select(log, {"effect", "effect_return"})

\* C16: the scene updates keep the order of the segments: the diff of
\* segment k is submitted at most once, after segment k finished
\* successfully and before segment k+1 starts, updates go out in increasing
\* order of segment, and an effect begins only after the one before it has
\* returned.
C16_SubmissionsInOrder ==
    /\ \A j \in 1..Len(log) :
           log[j].type = "newPlanningSceneMessage" =>
               /\ At("newPlanningSceneMessage", log[j].a) = {j}
               /\ \E s \in At("segment_ok", log[j].a) : s < j
               /\ \A m \in 1..Len(log) :
                      /\ log[m].type \in {"segment_ok", "segment_fail"} /\ log[m].a > log[j].a
                             => m > j
                      /\ log[m].type = "newPlanningSceneMessage" /\ m > j
                             => log[m].a > log[j].a
    /\ pc = "execute" /\ eng.pc \in {"run", "effect"} =>
           \A k \in 0..(Len(goal) - 1) : Submitted(k) => k < eng.idx
    /\ \A j \in 1..Len(EffectSpans) :
           IF j % 2 = 1
           THEN EffectSpans[j].type = "effect"
           ELSE /\ EffectSpans[j].type = "effect_return"
                /\ EffectSpans[j].a = EffectSpans[j - 1].a

\* two scene updates went out, for two different segments, and the engine
\* is running the segment after them
C16_Witness ==
    /\ pc = "execute" /\ eng.pc = "run" /\ eng.idx = 2
    /\ \E k, m \in 0..1 : k < m /\ Submitted(k) /\ Submitted(m)

-----------------------------------------------------------------------------
(* The reference states of the plan *)

\* the robot-state component of diff d is not empty
CarriesRobotState(d) ==
    ~d.is_diff \/ d.joint_state \/ d.multi_dof_joint_state \/ d.attached

RECURSIVE AppliedBefore(_)
\* the robot-state components of the diffs of segments 0..k-1 that are not
\* empty, in the order of the segments
AppliedBefore(k) ==
    IF k = 0 THEN <<>>
    ELSE LET d == goal[k].scene_diff
         IN  IF CarriesRobotState(d)
             THEN Append(AppliedBefore(k - 1),
                         [seg |-> k - 1,
                          joints |-> d.joint_state \/ d.multi_dof_joint_state,
                          attached |-> d.attached])
             ELSE AppliedBefore(k - 1)

\* the build has succeeded
BuildSucceeded == pc = "execute" \/ Has("executeAndMonitor")

\* what holds of the plan in every state
PlanFollowsSolution ==
    /\ \A k \in 1..Len(plan) :
           plan[k].built =>
               /\ plan[k].reference = [base |-> state.base, applied |-> AppliedBefore(k - 1)]
               /\ plan[k].controller_names = goal[k].controller_names
               /\ plan[k].description = <<k, Len(goal)>>
    /\ pc = "build" => state.applied = AppliedBefore(i)
    /\ BuildSucceeded =>
           /\ Len(plan) = Len(goal)
           /\ \A k \in 1..Len(plan) : plan[k].built

\* the running state is set from the current state of the scene, under the lock
SnapshotUnderLock ==
    state'.base # state.base => lockHeld /\ state'.base = current /\ state'.applied = <<>>

\* C17: the running state that segment i's trajectory is bound to is the
\* snapshot of the current state taken under the lock with the non-empty
\* robot-state components of the diffs of segments 0..i-1 applied in order;
\* segment i's own diff counts for the later segments only; a successful
\* build gives one executable segment per sub-trajectory, in order, with that
\* sub-trajectory's controller names and the label (i+1)/N.
C17_RunningState == [] PlanFollowsSolution /\ [][SnapshotUnderLock]_vars

\* a plan of three segments whose first two diffs carry a robot state: the
\* first segment is bound to the bare snapshot, the third to both diffs, and
\* the scene has changed since the snapshot
C17_Witness ==
    /\ pc = "execute" /\ Len(plan) = 3
    /\ CarriesRobotState(goal[1].scene_diff) /\ CarriesRobotState(goal[2].scene_diff)
    /\ plan[1].reference.applied = <<>>
    /\ Len(plan[2].reference.applied) = 1
    /\ Len(plan[3].reference.applied) = 2
    /\ plan[1].controller_names # plan[2].controller_names
    /\ current # state.base

-----------------------------------------------------------------------------
(* The read lock on the scene *)

\* C18: the read lock on the scene is held during the snapshot step only:
\* not while the segments are built, not while the plan is executed or an
\* effect runs, and not while the result is reported.
C18_LockOnlyForSnapshot ==
    /\ lockHeld => pc = "snapshot" /\ eng.pc = "off" /\ plan = <<>> /\ Terminals = <<>>
    /\ pc \in {"idle", "construct", "build", "execute", "report", "done"} => ~lockHeld

\* the lock has been taken and given back: the build is under way, lock-free,
\* with a segment already built, and the scene has moved on since the snapshot
C18_Witness ==
    /\ pc = "build" /\ i >= 1 /\ ~lockHeld
    /\ Has("lock")
    /\ current # state.base

-----------------------------------------------------------------------------
(* What happens to the solution *)

\* diff d with its joint-state fields cleared and marked as a diff, all else kept
Cleared(d) ==
    [joint_state |-> FALSE, multi_dof_joint_state |-> FALSE, is_diff |-> TRUE,
     attached |-> d.attached, world |-> d.world, wellformed |-> d.wellformed]

\* C19: the solution stays as the goal brought it, but for the stripping: the
\* build changes no sub-trajectory; execution changes only the scene diffs of
\* the segments whose effect ran, and only by clearing joint_state and
\* multi_dof_joint_state and setting is_diff; the diffs of segments that
\* failed, were preempted or never ran stay as they were.
C19_OnlyStripping ==
    /\ Len(solution) = Len(goal)
    /\ ~Has("executeAndMonitor") => solution = goal
    /\ \A k \in 0..(Len(goal) - 1) :
           IF EffectRan(k)
           THEN solution[k + 1] = [goal[k + 1] EXCEPT !.scene_diff = Cleared(@)]
           ELSE solution[k + 1] = goal[k + 1]

\* the effect of the first segment stripped its diff; the second segment,
\* whose diff has joint-state fields too, did not go through, and at the end
\* of the goal its diff is as it was
C19_Witness ==
    /\ pc = "done" /\ Len(goal) >= 2
    /\ EffectRan(0) /\ ~EffectRan(1)
    /\ solution[1] # goal[1]
    /\ goal[2].scene_diff.joint_state
    /\ solution[2] = goal[2]

-----------------------------------------------------------------------------
(* What preemptCallback does *)

\* a step in which preemptCallback ran: it is recorded, or a stop request is raised
PreemptStep == stops' # stops \/ (~eng.preempt /\ eng'.preempt)

\* what such a step leaves alone, and the one thing it does
OnlyStops ==
    PreemptStep =>
        /\ log' = log /\ plan' = plan /\ solution' = solution
        /\ pc' = pc /\ error_code' = error_code /\ state' = state /\ i' = i
        /\ lockHeld' = lockHeld
        /\ IF plan_execution_
           THEN eng' = [eng EXCEPT !.preempt = TRUE]
           ELSE eng' = eng

\* C20: preemptCallback makes no terminal transition, publishes no feedback
\* and does not touch the plan: it calls stop() if the execution subsystem
\* exists and does nothing otherwise; it can run in every state of the
\* coordinator and does not wait; when it runs before the plan has been
\* handed to the engine, all it does is call stop() on an engine that is not
\* executing.
C20_PreemptOnlyStops == [] (ENABLED preemptCallback) /\ [][OnlyStops]_vars

\* the request came while the plan was being built: stop() has been called on
\* an engine that is not executing, and nothing has been reported
C20_Witness ==
    /\ pc = "build" /\ i >= 1
    /\ stops.any /\ ~stops.executing
    /\ eng.preempt /\ eng.pc = "off"
    /\ Terminals = <<>> /\ Feedbacks = <<>>

====
